---- MODULE Spec2Model ----
(***************************************************************************)
(* The two ledger pallets of the tutorials:                                *)
(*   exercises/ex01-fungible-token/assets  (pallet "assets")               *)
(*   exercises/ex03-nft/nft                (pallet "nft")                  *)
(* and the flipper pallet of exercises/ex00-writing-tests, of which only   *)
(* the tests are at hand (pallet "flipper").                               *)
(* Each pallet is a crate of its own with a runtime of its own, so a       *)
(* behaviour is the life of ONE of them: Init picks the pallet and only    *)
(* that pallet's dispatchables are ever called.  One step is one           *)
(* dispatched call, run to its end (the host applies calls one at a time). *)
(* The integer types are scaled down: AssetIdMax and U128Max stand for the *)
(* largest values of the id type and of u128, so that saturation, wrapping *)
(* and overflow happen within a few calls.                                 *)
(***************************************************************************)
EXTENDS Integers, Sequences, FiniteSets, TLC

(* ------------------------------ bounds -------------------------------- *)

\* The largest value of the AssetId / UniqueAssetId integer type, scaled down.
AssetIdMax == 1

\* The largest value of u128 (balances, supplies), scaled down.
U128Max == 2

\* Config::MaxLength: the longest BoundedVec a name, symbol or blob may be.
MaxLength == 0

(* ------------------------------ inputs -------------------------------- *)

AccountId == {"ALICE", "BOB"}

\* A dispatch origin is a signed account or the unsigned root origin.
Root == "ROOT"
Origin == AccountId \cup {Root}

AssetId == 0..AssetIdMax
u128 == 0..U128Max

\* BoundedVec<u8, MaxLength> over a one-letter alphabet.
BoundedVec == UNION {[1..n -> {0}] : n \in 0..MaxLength}

(* --------------------------- integer helpers -------------------------- *)

\* u128::saturating_add / AssetId::saturating_add, for a type whose largest
\* value is max.
saturating_add(a, b, max) == IF a + b > max THEN max ELSE a + b

\* u128::saturating_sub.
saturating_sub(a, b) == IF b > a THEN 0 ELSE a - b

\* The outcomes of Rust's unchecked `a + b` / `a += b` on a type whose largest
\* value is max: the exact sum when it fits; otherwise a panic (builds with
\* overflow checks) or the sum wrapped around (builds without).
unchecked_add(a, b, max) ==
    IF a + b <= max
    THEN {[panic |-> FALSE, value |-> a + b]}
    ELSE {[panic |-> TRUE, value |-> 0],
          [panic |-> FALSE, value |-> (a + b) % (max + 1)]}

\* frame_system::ensure_signed: Ok for a signed origin, BadOrigin otherwise.
ensure_signed(origin) == origin \in AccountId

(* ------------------------------- state -------------------------------- *)

VARIABLES
    pallet,       \* "assets", "nft" or "flipper": the pallet this behaviour runs
    Asset,        \* assets: StorageMap AssetId -> AssetDetails (present keys)
    Metadata,     \* assets: StorageMap AssetId -> AssetMetadata (present keys)
    UniqueAsset,  \* nft: StorageMap UniqueAssetId -> UniqueAssetDetails
    Account,      \* both: StorageDoubleMap (id, account) -> u128, ValueQuery
    Nonce,        \* both: StorageValue, id of the next asset, ValueQuery
    Value,        \* flipper: StorageValue Option<bool>, <<>> or <<b>>
    call,         \* the name of the last dispatched call
    result,       \* what that call returned ("Panic": it was aborted)
    events        \* the events that call deposited

vars == <<pallet, Asset, Metadata, UniqueAsset, Account, Nonce, Value,
          call, result, events>>

storage == <<Asset, Metadata, UniqueAsset, Account, Nonce>>

\* AssetDetails::new(owner): a fresh asset has no supply.
AssetDetails_new(owner) == [owner |-> owner, supply |-> 0]

\* UniqueAssetDetails::new(owner, metadata, supply).
UniqueAssetDetails_new(owner, metadata, supply) ==
    [owner |-> owner, metadata |-> metadata, supply |-> supply]

\* StorageMap::insert: the value under the key is set, whatever was there.
insert(map, key, value) ==
    [k \in DOMAIN map \cup {key} |-> IF k = key THEN value ELSE map[k]]

\* StorageMap::contains_key
contains_key(map, key) == key \in DOMAIN map

\* The call returned err before its first write, or it panicked: a panic
\* aborts the call and the host drops whatever the call had written.
Fail(err) ==
    /\ result' = err
    /\ events' = <<>>
    /\ UNCHANGED storage

\* The host dispatches call c of pallet p; the storage of the other pallets
\* is not in p's runtime.
Dispatch(p, c) ==
    /\ pallet = p
    /\ call' = c
    /\ UNCHANGED pallet
    /\ IF p = "flipper" THEN UNCHANGED storage ELSE UNCHANGED Value

Init ==
    /\ pallet \in {"assets", "nft"}
    /\ Asset = <<>>
    /\ Metadata = <<>>
    /\ UniqueAsset = <<>>
    /\ Account = [id \in AssetId |-> [who \in AccountId |-> 0]]
    /\ Nonce = 0
    /\ Value = <<>>
    /\ call = "none"
    /\ result = "None"
    /\ events = <<>>

(* --------------------------- pallet assets ---------------------------- *)

\* Pallet::create
create(origin) ==
    /\ Dispatch("assets", "create")
    /\ IF ~ensure_signed(origin) THEN Fail("BadOrigin")
       ELSE LET id == Nonce
                details == AssetDetails_new(origin)
            IN  /\ Asset' = insert(Asset, id, details)
                /\ Nonce' = saturating_add(id, 1, AssetIdMax)
                /\ events' = <<[type |-> "Created", owner |-> origin,
                                asset_id |-> id]>>
                /\ result' = "Ok"
                /\ UNCHANGED <<Metadata, UniqueAsset, Account>>

\* ensure_is_owner without its ensure!: any account passes for a known asset.
ensure_is_owner_unchecked(asset_id, account) ==
    IF asset_id \notin DOMAIN Asset THEN "UnknownAssetId" ELSE "Ok"

\* Pallet::ensure_is_owner
ensure_is_owner(asset_id, account) ==
    IF asset_id \notin DOMAIN Asset THEN "UnknownAssetId"
    ELSE IF Asset[asset_id].owner = account THEN "Ok"
    ELSE "NoPermission"

\* set_metadata without its ensure_is_owner: a record for any id, by anyone.
set_metadata_any_id(origin, asset_id, name, symbol) ==
    /\ Dispatch("assets", "set_metadata")
    /\ IF ~ensure_signed(origin) THEN Fail("BadOrigin")
       ELSE /\ Metadata' = insert(Metadata, asset_id,
                                  [name |-> name, symbol |-> symbol])
            /\ events' = <<[type |-> "MetadataSet", asset_id |-> asset_id,
                            name |-> name, symbol |-> symbol]>>
            /\ result' = "Ok"
            /\ UNCHANGED <<Asset, UniqueAsset, Account, Nonce>>

\* set_metadata without its deposit_event.
set_metadata_no_event(origin, asset_id, name, symbol) ==
    /\ Dispatch("assets", "set_metadata")
    /\ IF ~ensure_signed(origin) THEN Fail("BadOrigin")
       ELSE IF ensure_is_owner(asset_id, origin) # "Ok"
       THEN Fail(ensure_is_owner(asset_id, origin))
       ELSE /\ Metadata' = insert(Metadata, asset_id,
                                  [name |-> name, symbol |-> symbol])
            /\ events' = <<>>
            /\ result' = "Ok"
            /\ UNCHANGED <<Asset, UniqueAsset, Account, Nonce>>

\* Pallet::set_metadata
set_metadata(origin, asset_id, name, symbol) ==
    /\ Dispatch("assets", "set_metadata")
    /\ IF ~ensure_signed(origin) THEN Fail("BadOrigin")
       ELSE IF ensure_is_owner(asset_id, origin) # "Ok"
       THEN Fail(ensure_is_owner(asset_id, origin))
       ELSE /\ Metadata' = insert(Metadata, asset_id,
                                  [name |-> name, symbol |-> symbol])
            /\ events' = <<[type |-> "MetadataSet", asset_id |-> asset_id,
                            name |-> name, symbol |-> symbol]>>
            /\ result' = "Ok"
            /\ UNCHANGED <<Asset, UniqueAsset, Account, Nonce>>

\* The closure of mint without `ensure!(details.owner == caller, ..)`.
mint_try_mutate_any_caller(asset_id, caller, amount) ==
    IF asset_id \notin DOMAIN Asset THEN [res |-> "UnknownAssetId"]
    ELSE LET details == Asset[asset_id]
             old_supply == details.supply
             supply == saturating_add(details.supply, amount, U128Max)
         IN  [res |-> "Ok",
              details |-> [details EXCEPT !.supply = supply],
              minted_amount |-> supply - old_supply,
              total_supply |-> supply]

\* The closure Pallet::mint hands to Asset::try_mutate, with what it leaves in
\* minted_amount and total_supply.  An Err keeps the stored details.
mint_try_mutate(asset_id, caller, amount) ==
    IF asset_id \notin DOMAIN Asset THEN [res |-> "UnknownAssetId"]
    ELSE LET details == Asset[asset_id] IN
         IF details.owner # caller THEN [res |-> "NoPermission"]
         ELSE LET old_supply == details.supply
                  supply == saturating_add(details.supply, amount, U128Max)
              IN  [res |-> "Ok",
                   details |-> [details EXCEPT !.supply = supply],
                   minted_amount |-> supply - old_supply,
                   total_supply |-> supply]

\* Pallet::mint
mint(origin, asset_id, amount, to) ==
    /\ Dispatch("assets", "mint")
    /\ IF ~ensure_signed(origin) THEN Fail("BadOrigin")
       ELSE LET m == mint_try_mutate(asset_id, origin, amount) IN
            IF m.res # "Ok" THEN Fail(m.res)
            ELSE \E sum \in unchecked_add(Account[asset_id][to],
                                          m.minted_amount, U128Max) :
                 IF sum.panic THEN Fail("Panic")
                 ELSE /\ Asset' = insert(Asset, asset_id, m.details)
                      /\ Account' = [Account EXCEPT
                                        ![asset_id][to] = sum.value]
                      /\ events' = <<[type |-> "Minted",
                                      asset_id |-> asset_id, owner |-> to,
                                      total_supply |-> m.total_supply]>>
                      /\ result' = "Ok"
                      /\ UNCHANGED <<Metadata, UniqueAsset, Nonce>>

\* The closure burn and transfer (of both pallets) hand to Account::mutate for
\* the caller's balance: the new balance and what was taken off it.
debit(balance, amount) ==
    LET old_balance == balance
        new_balance == saturating_sub(old_balance, amount)
    IN  [balance |-> new_balance, taken |-> old_balance - new_balance]

\* The closure Pallet::transfer hands to Account::mutate for the recipient.
credit(balance, transferred) ==
    LET old_balance == balance
        new_balance == saturating_add(old_balance, transferred, U128Max)
    IN  [balance |-> new_balance, transferred |-> new_balance - old_balance]

\* burn refusing a caller who holds nothing, as the nft pallet's burn does.
burn_not_owned(origin, asset_id, amount) ==
    /\ Dispatch("assets", "burn")
    /\ IF ~ensure_signed(origin) THEN Fail("BadOrigin")
       ELSE IF ~contains_key(Asset, asset_id) THEN Fail("UnknownAssetId")
       ELSE IF ~(Account[asset_id][origin] > 0) THEN Fail("NotOwned")
       ELSE LET d == debit(Account[asset_id][origin], amount)
                burnt_amount == d.taken
                details == Asset[asset_id]
                total_supply == saturating_sub(details.supply, burnt_amount)
            IN  /\ Account' = [Account EXCEPT ![asset_id][origin] = d.balance]
                /\ Asset' = insert(Asset, asset_id,
                        [details EXCEPT !.supply = total_supply])
                /\ events' = <<[type |-> "Burned", asset_id |-> asset_id,
                                owner |-> origin,
                                total_supply |-> total_supply]>>
                /\ result' = "Ok"
                /\ UNCHANGED <<Metadata, UniqueAsset, Nonce>>

\* Pallet::burn.  Account::mutate writes the caller's balance before
\* Asset::try_mutate looks the asset up a second time; were the asset missing
\* then, the call would return UnknownAssetId with the balance written.
burn(origin, asset_id, amount) ==
    /\ Dispatch("assets", "burn")
    /\ IF ~ensure_signed(origin) THEN Fail("BadOrigin")
       ELSE IF ~contains_key(Asset, asset_id) THEN Fail("UnknownAssetId")
       ELSE LET d == debit(Account[asset_id][origin], amount)
                burnt_amount == d.taken
            IN  /\ Account' = [Account EXCEPT ![asset_id][origin] = d.balance]
                /\ UNCHANGED <<Metadata, UniqueAsset, Nonce>>
                /\ IF asset_id \notin DOMAIN Asset
                   THEN /\ result' = "UnknownAssetId"
                        /\ events' = <<>>
                        /\ UNCHANGED Asset
                   ELSE LET details == Asset[asset_id]
                            total_supply ==
                                saturating_sub(details.supply, burnt_amount)
                        IN  /\ Asset' = insert(Asset, asset_id,
                                    [details EXCEPT !.supply = total_supply])
                            /\ events' = <<[type |-> "Burned",
                                            asset_id |-> asset_id,
                                            owner |-> origin,
                                            total_supply |-> total_supply]>>
                            /\ result' = "Ok"

\* transfer crediting the recipient's balance as it was read before the
\* debit was written.
transfer_stale_credit(origin, asset_id, amount, to) ==
    /\ Dispatch("assets", "transfer")
    /\ IF ~ensure_signed(origin) THEN Fail("BadOrigin")
       ELSE IF ~contains_key(Asset, asset_id) THEN Fail("UnknownAssetId")
       ELSE LET d == debit(Account[asset_id][origin], amount)
                debited == [Account EXCEPT ![asset_id][origin] = d.balance]
                c == credit(Account[asset_id][to], d.taken)
            IN  /\ Account' = [debited EXCEPT ![asset_id][to] = c.balance]
                /\ events' = <<[type |-> "Transferred", asset_id |-> asset_id,
                                from |-> origin, to |-> to,
                                amount |-> c.transferred]>>
                /\ result' = "Ok"
                /\ UNCHANGED <<Asset, Metadata, UniqueAsset, Nonce>>

\* Pallet::transfer
transfer(origin, asset_id, amount, to) ==
    /\ Dispatch("assets", "transfer")
    /\ IF ~ensure_signed(origin) THEN Fail("BadOrigin")
       ELSE IF ~contains_key(Asset, asset_id) THEN Fail("UnknownAssetId")
       ELSE LET d == debit(Account[asset_id][origin], amount)
                debited == [Account EXCEPT ![asset_id][origin] = d.balance]
                c == credit(debited[asset_id][to], d.taken)
            IN  /\ Account' = [debited EXCEPT ![asset_id][to] = c.balance]
                /\ events' = <<[type |-> "Transferred", asset_id |-> asset_id,
                                from |-> origin, to |-> to,
                                amount |-> c.transferred]>>
                /\ result' = "Ok"
                /\ UNCHANGED <<Asset, Metadata, UniqueAsset, Nonce>>

(* ----------------------------- pallet nft ----------------------------- *)

\* mint (nft) taking the id off the Nonce before it checks the supply.
nft_mint_id_first(origin, metadata, supply) ==
    /\ Dispatch("nft", "mint")
    /\ IF ~ensure_signed(origin) THEN Fail("BadOrigin")
       ELSE LET asset_id == Nonce IN
            \E next \in unchecked_add(asset_id, 1, AssetIdMax) :
            IF next.panic THEN Fail("Panic")
            ELSE IF ~(supply > 0)
            THEN /\ Nonce' = next.value
                 /\ result' = "NoSupply"
                 /\ events' = <<>>
                 /\ UNCHANGED <<Asset, Metadata, UniqueAsset, Account>>
            ELSE /\ Nonce' = next.value
                 /\ UniqueAsset' = insert(UniqueAsset, asset_id,
                        UniqueAssetDetails_new(origin, metadata, supply))
                 /\ Account' = [Account EXCEPT ![asset_id][origin] = supply]
                 /\ events' = <<[type |-> "Created", creator |-> origin,
                                 asset_id |-> asset_id]>>
                 /\ result' = "Ok"
                 /\ UNCHANGED <<Asset, Metadata>>

\* Pallet::mint (nft)
nft_mint(origin, metadata, supply) ==
    /\ Dispatch("nft", "mint")
    /\ IF ~ensure_signed(origin) THEN Fail("BadOrigin")
       ELSE IF ~(supply > 0) THEN Fail("NoSupply")
       ELSE LET asset_id == Nonce IN
            \E next \in unchecked_add(asset_id, 1, AssetIdMax) :
            IF next.panic THEN Fail("Panic")
            ELSE /\ Nonce' = next.value
                 /\ UniqueAsset' = insert(UniqueAsset, asset_id,
                        UniqueAssetDetails_new(origin, metadata, supply))
                 /\ Account' = [Account EXCEPT ![asset_id][origin] = supply]
                 /\ events' = <<[type |-> "Created", creator |-> origin,
                                 asset_id |-> asset_id]>>
                 /\ result' = "Ok"
                 /\ UNCHANGED <<Asset, Metadata>>

\* burn (nft) looking at the caller's balance before the registry.
nft_burn_balance_first(origin, asset_id, amount) ==
    /\ Dispatch("nft", "burn")
    /\ IF ~ensure_signed(origin) THEN Fail("BadOrigin")
       ELSE IF ~(Account[asset_id][origin] > 0) THEN Fail("NotOwned")
       ELSE IF ~contains_key(UniqueAsset, asset_id)
       THEN Fail("UnknownAssetId")
       ELSE LET d == debit(Account[asset_id][origin], amount)
                burnt_amount == d.taken
                details == UniqueAsset[asset_id]
                total_supply == saturating_sub(details.supply, burnt_amount)
            IN  /\ Account' = [Account EXCEPT ![asset_id][origin] = d.balance]
                /\ UniqueAsset' = insert(UniqueAsset, asset_id,
                        [details EXCEPT !.supply = total_supply])
                /\ events' = <<[type |-> "Burned", asset_id |-> asset_id,
                                owner |-> origin,
                                total_supply |-> total_supply]>>
                /\ result' = "Ok"
                /\ UNCHANGED <<Asset, Metadata, Nonce>>

\* Pallet::burn (nft).  As in the assets pallet, the balance is written
\* before UniqueAsset::mutate looks the asset up a second time.
nft_burn(origin, asset_id, amount) ==
    /\ Dispatch("nft", "burn")
    /\ IF ~ensure_signed(origin) THEN Fail("BadOrigin")
       ELSE IF ~contains_key(UniqueAsset, asset_id)
       THEN Fail("UnknownAssetId")
       ELSE IF ~(Account[asset_id][origin] > 0) THEN Fail("NotOwned")
       ELSE LET d == debit(Account[asset_id][origin], amount)
                burnt_amount == d.taken
            IN  /\ Account' = [Account EXCEPT ![asset_id][origin] = d.balance]
                /\ UNCHANGED <<Asset, Metadata, Nonce>>
                /\ IF asset_id \notin DOMAIN UniqueAsset
                   THEN /\ result' = "UnknownAssetId"
                        /\ events' = <<>>
                        /\ UNCHANGED UniqueAsset
                   ELSE LET details == UniqueAsset[asset_id]
                            total_supply ==
                                saturating_sub(details.supply, burnt_amount)
                        IN  /\ UniqueAsset' = insert(UniqueAsset, asset_id,
                                    [details EXCEPT !.supply = total_supply])
                            /\ events' = <<[type |-> "Burned",
                                            asset_id |-> asset_id,
                                            owner |-> origin,
                                            total_supply |-> total_supply]>>
                            /\ result' = "Ok"

\* transfer (nft) taking what it moves off the supply, as burn does.
nft_transfer_takes_supply(origin, asset_id, amount, to) ==
    /\ Dispatch("nft", "transfer")
    /\ IF ~ensure_signed(origin) THEN Fail("BadOrigin")
       ELSE IF ~contains_key(UniqueAsset, asset_id)
       THEN Fail("UnknownAssetId")
       ELSE IF ~(Account[asset_id][origin] > 0) THEN Fail("NotOwned")
       ELSE LET d == debit(Account[asset_id][origin], amount)
                transferred == d.taken
                debited == [Account EXCEPT ![asset_id][origin] = d.balance]
                details == UniqueAsset[asset_id]
                total_supply == saturating_sub(details.supply, transferred)
            IN  \E sum \in unchecked_add(debited[asset_id][to], transferred,
                                         U128Max) :
                IF sum.panic THEN Fail("Panic")
                ELSE /\ Account' = [debited EXCEPT
                                       ![asset_id][to] = sum.value]
                     /\ UniqueAsset' = insert(UniqueAsset, asset_id,
                            [details EXCEPT !.supply = total_supply])
                     /\ events' = <<[type |-> "Transferred",
                                     asset_id |-> asset_id, from |-> origin,
                                     to |-> to, amount |-> transferred]>>
                     /\ result' = "Ok"
                     /\ UNCHANGED <<Asset, Metadata, Nonce>>

\* Pallet::transfer (nft)
nft_transfer(origin, asset_id, amount, to) ==
    /\ Dispatch("nft", "transfer")
    /\ IF ~ensure_signed(origin) THEN Fail("BadOrigin")
       ELSE IF ~contains_key(UniqueAsset, asset_id)
       THEN Fail("UnknownAssetId")
       ELSE IF ~(Account[asset_id][origin] > 0) THEN Fail("NotOwned")
       ELSE LET d == debit(Account[asset_id][origin], amount)
                transferred == d.taken
                debited == [Account EXCEPT ![asset_id][origin] = d.balance]
            IN  \E sum \in unchecked_add(debited[asset_id][to], transferred,
                                         U128Max) :
                IF sum.panic THEN Fail("Panic")
                ELSE /\ Account' = [debited EXCEPT
                                       ![asset_id][to] = sum.value]
                     /\ events' = <<[type |-> "Transferred",
                                     asset_id |-> asset_id, from |-> origin,
                                     to |-> to, amount |-> transferred]>>
                     /\ result' = "Ok"
                     /\ UNCHANGED <<Asset, Metadata, UniqueAsset, Nonce>>

(* --------------------------- pallet flipper --------------------------- *)

\* Option<bool>: None and Some(b).
None == <<>>
Some(b) == <<b>>

\* set_value storing the value whether or not one is stored.
set_value_overwrite(origin, value) ==
    /\ Dispatch("flipper", "set_value")
    /\ origin \in AccountId
    /\ Value' = Some(value)
    /\ result' = "Ok"
    /\ events' = <<>>

\* Flipper::set_value, as its tests use it: by a signed origin; Ok with the
\* value stored when none is, AlreadySet otherwise.
set_value(origin, value) ==
    /\ Dispatch("flipper", "set_value")
    /\ origin \in AccountId
    /\ IF Value # None
       THEN /\ result' = "AlreadySet"
            /\ UNCHANGED Value
       ELSE /\ Value' = Some(value)
            /\ result' = "Ok"
    /\ events' = <<>>

\* Flipper::flip_value, as its tests use it: NoneValue when no value is
\* stored, else Ok with the stored value negated.
flip_value(origin) ==
    /\ Dispatch("flipper", "flip_value")
    /\ origin \in AccountId
    /\ IF Value = None
       THEN /\ result' = "NoneValue"
            /\ UNCHANGED Value
       ELSE /\ Value' = Some(~Value[1])
            /\ result' = "Ok"
    /\ events' = <<>>

(* ---------------------------- specification --------------------------- *)

\* The calls of the assets pallet, by any origin with any arguments.
NextAssets ==
    \/ \E origin \in Origin : create(origin)
    \/ \E origin \in Origin, asset_id \in AssetId, name, symbol \in BoundedVec :
          set_metadata(origin, asset_id, name, symbol)
    \/ \E origin \in Origin, asset_id \in AssetId, amount \in u128,
          to \in AccountId : mint(origin, asset_id, amount, to)
    \/ \E origin \in Origin, asset_id \in AssetId, amount \in u128 :
          burn(origin, asset_id, amount)
    \/ \E origin \in Origin, asset_id \in AssetId, amount \in u128,
          to \in AccountId : transfer(origin, asset_id, amount, to)

\* The calls of the nft pallet.
NextNft ==
    \/ \E origin \in Origin, metadata \in BoundedVec, supply \in u128 :
          nft_mint(origin, metadata, supply)
    \/ \E origin \in Origin, asset_id \in AssetId, amount \in u128 :
          nft_burn(origin, asset_id, amount)
    \/ \E origin \in Origin, asset_id \in AssetId, amount \in u128,
          to \in AccountId : nft_transfer(origin, asset_id, amount, to)

Next == NextAssets \/ NextNft

\* Either pallet.
Spec == Init /\ [][Next]_vars

\* The assets pallet alone.
InitAssets == Init /\ pallet = "assets"

SpecAssets == InitAssets /\ [][NextAssets]_vars

\* The nft pallet alone.
InitNft == Init /\ pallet = "nft"

SpecNft == InitNft /\ [][NextNft]_vars

\* The calls of the flipper pallet.
NextFlipper ==
    \/ \E origin \in AccountId, value \in BOOLEAN : set_value(origin, value)
    \/ \E origin \in AccountId : flip_value(origin)

\* new_test_ext() of the flipper tests: no value is stored.
InitFlipper ==
    /\ pallet = "flipper"
    /\ Asset = <<>>
    /\ Metadata = <<>>
    /\ UniqueAsset = <<>>
    /\ Account = [id \in AssetId |-> [who \in AccountId |-> 0]]
    /\ Nonce = 0
    /\ Value = None
    /\ call = "none"
    /\ result = "None"
    /\ events = <<>>

\* Any of the three exercises.
InitExercises == Init \/ InitFlipper

NextExercises == Next \/ NextFlipper

SpecExercises == InitExercises /\ [][NextExercises]_vars

(* ------------------------------- claims ------------------------------- *)

\* What a call returns when it returns an error.
Errors == {"BadOrigin", "UnknownAssetId", "NoPermission", "NotOwned",
           "NoSupply"}

\* The sum of the balances stored under id, over all accounts.
RECURSIVE SumOver(_, _)
SumOver(row, accounts) ==
    IF accounts = {} THEN 0
    ELSE LET who == CHOOSE w \in accounts : TRUE
         IN  row[who] + SumOver(row, accounts \ {who})

TotalBalance(id) == SumOver(Account[id], AccountId)

\* C1: in the assets pallet, every registered AssetId has supply equal to the
\* sum of the balances stored under it, after every call.
C1_SupplyIsSumOfBalances ==
    pallet = "assets" =>
        \A id \in DOMAIN Asset : Asset[id].supply = TotalBalance(id)

\* C2: in the nft pallet, every registered id has supply equal to the sum of
\* the balances stored under it, after every call.
C2_UniqueSupplyIsSumOfBalances ==
    pallet = "nft" =>
        \A id \in DOMAIN UniqueAsset : UniqueAsset[id].supply = TotalBalance(id)

\* C3: once an id has a registry record, no later call of either pallet
\* changes the owner field of that record.
C3_OwnerNeverChanges ==
    [][/\ \A id \in DOMAIN Asset :
             id \in DOMAIN Asset' /\ Asset'[id].owner = Asset[id].owner
       /\ \A id \in DOMAIN UniqueAsset :
             /\ id \in DOMAIN UniqueAsset'
             /\ UniqueAsset'[id].owner = UniqueAsset[id].owner]_vars

\* C4: ids are never reused: the id a successful create (assets) or mint (nft)
\* is assigned, which is the id in its Created event, has no registry record
\* before the call.  (Records are never removed, so every id assigned earlier
\* has one.)
C4_IdsNeverReused ==
    [][/\ (call' = "create" /\ result' = "Ok") =>
              events'[1].asset_id \notin DOMAIN Asset
       /\ (pallet = "nft" /\ call' = "mint" /\ result' = "Ok") =>
              events'[1].asset_id \notin DOMAIN UniqueAsset]_vars

\* C5: a call that returns an error leaves the registry, every balance, the
\* Metadata map and the Nonce exactly as they were before it.
C5_ErrorLeavesStorage ==
    [][result' \in Errors => UNCHANGED storage]_vars

\* C5 happens: a transfer is refused with NotOwned while balances are held.
C5_Witness ==
    /\ call = "transfer"
    /\ result = "NotOwned"
    /\ \E id \in DOMAIN UniqueAsset, who \in AccountId : Account[id][who] > 0

\* C6: a call that returns Ok has deposited exactly one event and a call that
\* returns an error has deposited none.
C6_OneEventIffOk ==
    /\ result = "Ok" => Len(events) = 1
    /\ result \in Errors => Len(events) = 0

\* C6 happens: a burn has returned Ok and deposited its Burned event.
C6_Witness ==
    /\ call = "burn"
    /\ result = "Ok"
    /\ Len(events) = 1
    /\ events[1].type = "Burned"

\* C7 as stated: a mint on a registered asset by a signed account that is not
\* its owner returns Ok (never NoPermission), raises the supply by the amount
\* (saturating) and credits the recipient with the rise.
C7_MintIgnoresOwner ==
    [][\A origin \in AccountId, asset_id \in DOMAIN Asset, amount \in u128,
          to \in AccountId :
          (/\ call' = "mint"
           /\ Asset[asset_id].owner # origin
           /\ mint(origin, asset_id, amount, to)) =>
              /\ result' = "Ok"
              /\ Asset'[asset_id].supply =
                    saturating_add(Asset[asset_id].supply, amount, U128Max)
              /\ Account'[asset_id][to] =
                    Account[asset_id][to]
                        + (Asset'[asset_id].supply - Asset[asset_id].supply)
      ]_vars

\* C7 as amended: a mint on a registered asset by a signed account that is
\* not its owner returns NoPermission, deposits nothing and changes neither
\* the supply nor any balance.
C7_MintRequiresOwner ==
    [][\A origin \in AccountId, asset_id \in DOMAIN Asset, amount \in u128,
          to \in AccountId :
          (/\ call' = "mint"
           /\ Asset[asset_id].owner # origin
           /\ mint(origin, asset_id, amount, to)) =>
              /\ result' = "NoPermission"
              /\ events' = <<>>
              /\ UNCHANGED storage
      ]_vars

\* C7 happens: a mint of the assets pallet has been refused with NoPermission
\* (mint returns it for no other reason than a caller who is not the owner).
C7_Witness ==
    /\ pallet = "assets"
    /\ call = "mint"
    /\ result = "NoPermission"
    /\ \E id \in DOMAIN Asset : Asset[id].supply > 0

Max(a, b) == IF a > b THEN a ELSE b
Min(a, b) == IF a < b THEN a ELSE b

\* C8: burn(caller, a, amount) on a registered asset, with old the caller's
\* balance: the balance becomes max(old - amount, 0), the supply drops by
\* exactly min(amount, old), and the Burned event carries the new supply.
C8_BurnTakesMinOffSupply ==
    [][\A origin \in AccountId, asset_id \in DOMAIN Asset, amount \in u128 :
          (/\ call' = "burn"
           /\ burn(origin, asset_id, amount)) =>
              LET old_balance == Account[asset_id][origin] IN
              /\ result' = "Ok"
              /\ Account'[asset_id][origin] = Max(old_balance - amount, 0)
              /\ Asset'[asset_id].supply =
                    Asset[asset_id].supply - Min(amount, old_balance)
              /\ events' = <<[type |-> "Burned", asset_id |-> asset_id,
                              owner |-> origin,
                              total_supply |-> Asset'[asset_id].supply]>>
      ]_vars

\* C9: transfer(from, a, amount, to) on a registered asset with from # to
\* moves moved = min(amount, balance of from): the sender's balance drops by
\* moved, the recipient's rises by moved, and the Transferred event's amount
\* is moved.
C9_TransferMovesMin ==
    [][\A origin \in AccountId, asset_id \in DOMAIN Asset, amount \in u128,
          to \in AccountId :
          (/\ call' = "transfer"
           /\ origin # to
           /\ transfer(origin, asset_id, amount, to)) =>
              LET moved == Min(amount, Account[asset_id][origin]) IN
              /\ result' = "Ok"
              /\ Account'[asset_id][origin] =
                    Account[asset_id][origin] - moved
              /\ Account'[asset_id][to] = Account[asset_id][to] + moved
              /\ events' = <<[type |-> "Transferred", asset_id |-> asset_id,
                              from |-> origin, to |-> to,
                              amount |-> moved]>>
      ]_vars

\* C10: set_metadata by a signed account on a registered asset it does not
\* own returns NoPermission and leaves the Metadata map as it was; on an id
\* that is not registered it returns UnknownAssetId.
C10_SetMetadataRequiresOwner ==
    [][\A origin \in AccountId, asset_id \in AssetId,
          name \in BoundedVec, symbol \in BoundedVec :
          (/\ call' = "set_metadata"
           /\ set_metadata(origin, asset_id, name, symbol)) =>
              /\ (asset_id \in DOMAIN Asset
                    /\ Asset[asset_id].owner # origin) =>
                       (result' = "NoPermission" /\ Metadata' = Metadata)
              /\ asset_id \notin DOMAIN Asset => result' = "UnknownAssetId"
      ]_vars

\* C10 happens: set_metadata has been refused with NoPermission in a state
\* where some asset is registered without a Metadata record (none was made).
C10_Witness ==
    /\ call = "set_metadata"
    /\ result = "NoPermission"
    /\ \E id \in DOMAIN Asset : id \notin DOMAIN Metadata

\* C11: a mint of the nft pallet with supply 0 returns NoSupply, deposits
\* nothing and leaves the Nonce, the UniqueAsset registry and every balance
\* as they were, so the id it would have been given is still the next one.
C11_ZeroSupplyMintConsumesNoId ==
    [][\A origin \in AccountId, metadata \in BoundedVec :
          (/\ call' = "mint"
           /\ nft_mint(origin, metadata, 0)) =>
              /\ result' = "NoSupply"
              /\ events' = <<>>
              /\ Nonce' = Nonce
              /\ UniqueAsset' = UniqueAsset
              /\ Account' = Account
      ]_vars

\* C11 happens: a mint has been refused with NoSupply after an earlier mint
\* took id 0, and the Nonce still names the id no mint has been given.
C11_Witness ==
    /\ pallet = "nft"
    /\ call = "mint"
    /\ result = "NoSupply"
    /\ Nonce = 1
    /\ DOMAIN UniqueAsset = {0}

\* C12: in the nft pallet, burn and transfer by a signed account return
\* UnknownAssetId on an id with no registry record (whatever the balance),
\* and NotOwned on a registered id of which the caller's balance is 0; in
\* both cases nothing is deposited and the storage is left as it was.
C12_NotOwnedAfterUnknownAssetId ==
    [][/\ call' = "burn" =>
             \A origin \in AccountId, asset_id \in AssetId :
                LET unknown == asset_id \notin DOMAIN UniqueAsset
                    refused == IF unknown THEN "UnknownAssetId" ELSE "NotOwned"
                IN  (unknown \/ Account[asset_id][origin] = 0) =>
                       \A amount \in u128 :
                          nft_burn(origin, asset_id, amount) =>
                             /\ result' = refused
                             /\ events' = <<>>
                             /\ UNCHANGED storage
       /\ call' = "transfer" =>
             \A origin \in AccountId, asset_id \in AssetId :
                LET unknown == asset_id \notin DOMAIN UniqueAsset
                    refused == IF unknown THEN "UnknownAssetId" ELSE "NotOwned"
                IN  (unknown \/ Account[asset_id][origin] = 0) =>
                       \A amount \in u128, to \in AccountId :
                          nft_transfer(origin, asset_id, amount, to) =>
                             /\ result' = refused
                             /\ events' = <<>>
                             /\ UNCHANGED storage
      ]_vars

\* C12 happens: a burn of the nft pallet has been refused with NotOwned on
\* an asset whose whole supply another account holds, while another id is
\* still unregistered.
C12_Witness ==
    /\ pallet = "nft"
    /\ call = "burn"
    /\ result = "NotOwned"
    /\ DOMAIN UniqueAsset = {0}
    /\ \E who \in AccountId :
          /\ Account[0][who] = 0
          /\ \E other \in AccountId : Account[0][other] = UniqueAsset[0].supply
             /\ Account[0][other] > 0

\* C13: no call of either pallet performs an addition on a balance, a supply
\* or the Nonce whose exact result is out of the integer type's range: no
\* call panics, and what the unchecked additions of the code store (the Nonce
\* of an nft mint, the recipient's balance of a mint of the assets pallet and
\* of an nft transfer) is the exact sum clamped to the type's largest value.
C13_EveryAdditionIsClamped ==
    [][/\ result' # "Panic"
       /\ (pallet = "nft" /\ call' = "mint" /\ result' = "Ok") =>
             Nonce' = saturating_add(Nonce, 1, AssetIdMax)
       /\ (pallet = "assets" /\ call' = "mint" /\ result' = "Ok") =>
             \A origin \in AccountId, asset_id \in DOMAIN Asset,
                amount \in u128, to \in AccountId :
                mint(origin, asset_id, amount, to) =>
                   Account'[asset_id][to] =
                      saturating_add(Account[asset_id][to],
                                     Asset'[asset_id].supply
                                        - Asset[asset_id].supply, U128Max)
       /\ (pallet = "nft" /\ call' = "transfer" /\ result' = "Ok") =>
             \A origin \in AccountId, asset_id \in DOMAIN UniqueAsset,
                amount \in u128, to \in AccountId :
                (origin # to /\ nft_transfer(origin, asset_id, amount, to)) =>
                   Account'[asset_id][to] =
                      saturating_add(Account[asset_id][to],
                                     Account[asset_id][origin]
                                        - Account'[asset_id][origin], U128Max)
      ]_vars

\* C14: create by a signed caller always returns Ok: it registers
\* AssetDetails{owner: caller, supply: 0} under the id the Nonce held before
\* the call, leaves the Nonce one higher, changes no balance and deposits
\* Created{owner: caller, asset_id: that id}.
C14_CreateAdvancesNonceByOne ==
    [][call' = "create" =>
          \A origin \in AccountId :
             create(origin) =>
                /\ result' = "Ok"
                /\ Nonce \in DOMAIN Asset'
                /\ Asset'[Nonce] = [owner |-> origin, supply |-> 0]
                /\ \A id \in DOMAIN Asset \ {Nonce} :
                      id \in DOMAIN Asset' /\ Asset'[id] = Asset[id]
                /\ Nonce' = Nonce + 1
                /\ Account' = Account
                /\ events' = <<[type |-> "Created", owner |-> origin,
                                asset_id |-> Nonce]>>
      ]_vars

\* C15: a mint of the assets pallet by the owner of a registered asset
\* returns Ok, sets the supply to min(supply + amount, MAX), credits the
\* recipient's balance with exactly the rise of the supply (which is amount
\* whenever supply + amount is at most MAX), changes no other balance, and
\* deposits Minted{asset_id, owner: to, total_supply: the new supply}.
C15_MintCreditsSupplyRise ==
    [][call' = "mint" =>
          \A asset_id \in DOMAIN Asset, amount \in u128, to \in AccountId :
             LET origin == Asset[asset_id].owner
                 supply == Asset[asset_id].supply
                 newSupply == Min(supply + amount, U128Max)
             IN  mint(origin, asset_id, amount, to) =>
                    /\ result' = "Ok"
                    /\ Asset'[asset_id].supply = newSupply
                    /\ supply + amount <= U128Max => newSupply - supply = amount
                    /\ Account'[asset_id][to] =
                          Account[asset_id][to] + (newSupply - supply)
                    /\ \A id \in AssetId, who \in AccountId :
                          <<id, who>> # <<asset_id, to>> =>
                             Account'[id][who] = Account[id][who]
                    /\ events' = <<[type |-> "Minted", asset_id |-> asset_id,
                                    owner |-> to, total_supply |-> newSupply]>>
      ]_vars

C17_BurnOfNothingSucceeds ==
    [][call' = "burn" =>
          \A origin \in AccountId, asset_id \in DOMAIN Asset :
             Account[asset_id][origin] = 0 =>
                \A amount \in u128 :
                   burn(origin, asset_id, amount) =>
                      /\ result' = "Ok"
                      /\ Account' = Account
                      /\ Asset' = Asset
                      /\ events' = <<[type |-> "Burned",
                                      asset_id |-> asset_id, owner |-> origin,
                                      total_supply |-> Asset[asset_id].supply]>>
      ]_vars

\* C17 happens: a burn of the assets pallet has returned Ok for a caller who
\* holds nothing of the asset while another account holds the whole supply,
\* the largest there can be (so the caller had nothing to burn).
C17_Witness ==
    /\ pallet = "assets"
    /\ call = "burn"
    /\ result = "Ok"
    /\ \E id \in DOMAIN Asset, other \in AccountId :
          /\ events[1].asset_id = id
          /\ events[1].owner # other
          /\ Account[id][events[1].owner] = 0
          /\ Account[id][other] = U128Max
          /\ Asset[id].supply = U128Max
          /\ events[1].total_supply = U128Max

\* C18: a transfer of the assets pallet whose recipient is the caller, on a
\* registered asset, returns Ok and changes nothing stored: every balance
\* (the caller's too) and every supply is as before, for every amount.  Put
\* the other way round: a transfer step that fails or changes the storage is
\* not the step of a transfer from a signed account to itself.
C18_SelfTransferIsNoOp ==
    [][call' = "transfer" =>
          \/ result' = "Ok" /\ UNCHANGED storage
          \/ \A origin \in AccountId, asset_id \in DOMAIN Asset,
                amount \in u128 :
                ~transfer(origin, asset_id, amount, origin)
      ]_vars

\* C18 happens: a transfer of the assets pallet from an account to itself has
\* returned Ok having moved a positive amount.
C18_Witness ==
    /\ pallet = "assets"
    /\ call = "transfer"
    /\ result = "Ok"
    /\ events[1].from = events[1].to
    /\ events[1].amount > 0
    /\ Account[events[1].asset_id][events[1].from] >= events[1].amount

\* What a step on asset a made for the accounts in holders leaves alone:
\* every balance of another asset, every balance of a held by another
\* account, every other asset's registry record (none is added or removed),
\* the Metadata map and the Nonce.
Frame(a, holders) ==
    /\ \A id \in AssetId, who \in AccountId :
          (id # a \/ who \notin holders) =>
             Account'[id][who] = Account[id][who]
    /\ DOMAIN Asset' = DOMAIN Asset
    /\ \A id \in DOMAIN Asset \ {a} : Asset'[id] = Asset[id]
    /\ DOMAIN UniqueAsset' = DOMAIN UniqueAsset
    /\ \A id \in DOMAIN UniqueAsset \ {a} : UniqueAsset'[id] = UniqueAsset[id]
    /\ Metadata' = Metadata
    /\ Nonce' = Nonce

C20_DataOnlyForRegisteredAssets ==
    /\ \A id \in AssetId, who \in AccountId :
          Account[id][who] # 0 =>
             id \in (IF pallet = "assets" THEN DOMAIN Asset
                     ELSE DOMAIN UniqueAsset)
    /\ pallet = "assets" => DOMAIN Metadata \subseteq DOMAIN Asset

\* C20 happens: in the assets pallet an id is still unregistered while a
\* registered one has a Metadata record and a balance held.
C20_Witness ==
    /\ pallet = "assets"
    /\ DOMAIN Asset = {0}
    /\ DOMAIN Metadata = {0}
    /\ \E who \in AccountId : Account[0][who] > 0
====
